---- MODULE Spec2Model ----
(***************************************************************************)
(* State-machine model of the 2xCustoms single-page application            *)
(* (src/src/App.jsx): the admin gate (AdminLogin, App.adminAuth), the      *)
(* page router (App.page, renderPage), the Firebase hook (useFirebase),    *)
(* the two lead-capture forms and the submissions dashboard.               *)
(*                                                                         *)
(* One action is one event-loop task of the browser: a DOM event handler   *)
(* together with the React re-render and effects it causes, or the         *)
(* continuation of an `await` once the awaited network request settles.    *)
(***************************************************************************)
EXTENDS Integers, Sequences, FiniteSets, TLC

\* JavaScript's null and undefined; no input string is equal to either.
NULL == "<null>"
UNDEFINED == "<undefined>"

VARIABLES
  env,            \* the deployment's configuration, fixed for a behaviour
  storage,        \* localStorage['2x_admin_auth']: NULL (absent) or a string
  storageBlocked, \* TRUE when localStorage access throws in this page load
  page,           \* App.page
  adminAuth,      \* App.adminAuth
  adminModalOpen, \* App.adminModalOpen
  password,       \* AdminLogin.password
  email,          \* AdminLogin.email
  error,          \* AdminLogin.error
  db,             \* useFirebase.db is set
  auth,           \* useFirebase.auth is set
  userId,         \* useFirebase.userId
  currentUser,    \* useFirebase.currentUser
  isReady,        \* useFirebase.isReady
  session,        \* the identity provider's current user
  authBoot,       \* progress of the start-up sign-in of the init effect
  unhandled,      \* an unhandled promise rejection has reached the global handler
  signIns,        \* signInWithEmailAndPassword requests in flight
  signOuts,       \* handleLogoutAdmin continuations waiting for firebaseSignOut
  dash,           \* SubmissionsDashboard: mounted, isLoading, submissions
  fetching,       \* the mounted dashboard's getDocs request is in flight
  form,           \* the mounted form component (CustomForm or ContactForm)
  writes,         \* addDoc requests in flight
  store,          \* the documents of the submissions collection, oldest first
  gateLog,        \* history: the last login or logout and whether its storage call threw
  submitLog       \* history: what became of the last click on a submit button

vars == <<env, storage, storageBlocked, page, adminAuth, adminModalOpen,
          password, email, error, db, auth, userId, currentUser, isReady,
          session, authBoot, unhandled, signIns, signOuts, dash, fetching,
          form, writes, store, gateLog, submitLog>>

----------------------------------------------------------------------------
(* Bounds of the model *)

MaxSignIns == 2   \* sign-in requests in flight at once
MaxSignOuts == 1  \* sign-out requests in flight at once
MaxSubmits == 2   \* submissions in flight or stored in the collection
MaxDocs == 52     \* documents the collection holds when the page loads

----------------------------------------------------------------------------
(* Configuration: src/src/App.jsx lines 10-23, 103-105 *)

Secret == "PizzaWhite70"

\* Values the runtime global __admin_password may hold (UNDEFINED: not declared).
AdminPasswordGlobals == {UNDEFINED, "", Secret}
\* Values of import.meta.env.VITE_ADMIN_PASSWORD (UNDEFINED: not set).
ViteAdminPasswords == {UNDEFINED, "", Secret}

\* The backend part of a deployment: whether FIREBASE_CONFIG is set, whether
\* initializeApp/getAuth/getFirestore throw on it, whether a bootstrap token
\* is configured.
Backends ==
  { b \in [firebaseConfig : BOOLEAN, initialAuthToken : BOOLEAN,
           initThrows : BOOLEAN] :
      /\ (~b.firebaseConfig => ~b.initialAuthToken /\ ~b.initThrows)
      /\ (b.initThrows => ~b.initialAuthToken) }

EnvOf(global, vite, toggle, b) ==
  [adminPasswordGlobal |-> global, viteAdminPassword |-> vite,
   viteUseFirebaseAdmin |-> toggle, firebaseConfig |-> b.firebaseConfig,
   initialAuthToken |-> b.initialAuthToken, initThrows |-> b.initThrows]

\* The deployments explored: without a backend, every source and value of
\* the secret; with the secret of the README's example
\* (VITE_ADMIN_PASSWORD=PizzaWhite70), every backend without the
\* delegated-admin toggle, and with the toggle every backend but the one
\* with a bootstrap token.
Envs ==
  { EnvOf(g, v, FALSE, [firebaseConfig |-> FALSE, initialAuthToken |-> FALSE,
                        initThrows |-> FALSE]) :
      g \in AdminPasswordGlobals, v \in ViteAdminPasswords }
  \cup { EnvOf(UNDEFINED, Secret, FALSE, b) : b \in Backends }
  \cup { EnvOf(UNDEFINED, Secret, TRUE, b) :
           b \in { x \in Backends : ~x.initialAuthToken } }

\* JavaScript truthiness of a string-or-null value.
Falsy(v) == v \in {"", NULL, UNDEFINED}

\* `a || b`
OrElse(a, b) == IF Falsy(a) THEN b ELSE a

\* typeof __admin_password !== 'undefined' ? __admin_password
\*   : (import.meta.env.VITE_ADMIN_PASSWORD || null)
AdminPasswordOf(e) ==
  IF e.adminPasswordGlobal # UNDEFINED
    THEN e.adminPasswordGlobal
    ELSE OrElse(e.viteAdminPassword, NULL)

ADMIN_PASSWORD == AdminPasswordOf(env)

\* A mode selection that looks at the toggle only.
UseFirebaseAdminToggleOnly(e) == e.viteUseFirebaseAdmin

\* Boolean(FIREBASE_CONFIG && VITE_USE_FIREBASE_ADMIN === '1'
\*         && typeof signInWithEmail === 'function')
UseFirebaseAdminOf(e) == e.firebaseConfig /\ e.viteUseFirebaseAdmin

useFirebaseAdmin == UseFirebaseAdminOf(env)

\* The init effect reaches setAuth/setDb: a descriptor is present and
\* initializeApp/getAuth/getFirestore do not throw.
FirebaseUp(e) == e.firebaseConfig /\ ~e.initThrows

----------------------------------------------------------------------------
(* Page router and render: App.renderPage, lines 1015-1050 *)

\* Object.keys(PAGE_ROUTES), lines 27-36
Pages == {"home", "custom", "cleaning", "gallery", "pricing", "about",
          "contact", "submissions"}

\* renderPage without the adminAuth test of line 1040.
ViewUngated(ready, pg, admin) ==
  IF ~ready THEN "Loading"
  ELSE CASE pg = "custom" -> "CustomForm"
         [] pg = "contact" -> "ContactForm"
         [] pg = "submissions" -> "SubmissionsDashboard"
         [] OTHER -> "HomePage"

\* The component renderPage returns for a state of App.
View(ready, pg, admin) ==
  IF ~ready THEN "Loading"
  ELSE CASE pg = "custom" -> "CustomForm"
         [] pg = "cleaning" -> "CleaningPage"
         [] pg = "gallery" -> "GalleryPage"
         [] pg = "pricing" -> "PricingPage"
         [] pg = "about" -> "AboutPage"
         [] pg = "contact" -> "ContactForm"
         [] pg = "submissions" ->
              IF admin THEN "SubmissionsDashboard" ELSE "AdminPrompt"
         [] OTHER -> "HomePage"

CurrentView == View(isReady, page, adminAuth)

\* useState initial values of the components that hold state.
DashUnmounted == [mounted |-> FALSE, isLoading |-> FALSE, submissions |-> <<>>]

\* form.image === null, as a descriptor of no file
NoImage == [name |-> NULL, size |-> 0, type |-> NULL]

FormOf(kind) ==
  [kind |-> kind, name |-> "", email |-> "", shoeModel |-> "",
   designRequest |-> "", budget |-> "", image |-> NoImage, message |-> "",
   isSubmitting |-> FALSE, modalOpen |-> FALSE]

NoForm == FormOf("none")

FormKind(view) ==
  CASE view = "CustomForm" -> "custom"
    [] view = "ContactForm" -> "contact"
    [] OTHER -> "none"

\* SubmissionsDashboard after React commits a render that changes the view
\* from `old` to `new`: a mount runs the effect of lines 779-788, which
\* sets isLoading and calls fetchSubmissions; without db, fetchSubmissions
\* returns [] at once (line 252) and the load completes in the same task.
DashAfter(old, new) ==
  IF new = "SubmissionsDashboard"
    THEN IF old = "SubmissionsDashboard" THEN dash
         ELSE [mounted |-> TRUE, isLoading |-> db, submissions |-> <<>>]
    ELSE DashUnmounted

\* The getDocs request of the mounted dashboard. The result of a request
\* whose dashboard has unmounted is dropped by React, so it is forgotten here.
FetchingAfter(old, new) ==
  IF new = "SubmissionsDashboard"
    THEN IF old = "SubmissionsDashboard" THEN fetching ELSE db
    ELSE FALSE

\* The form components: a mount starts from the useState initial values,
\* an unmount discards the state.
FormAfter(old, new) ==
  IF FormKind(new) = FormKind(old) THEN form ELSE FormOf(FormKind(new))

\* addDoc requests outlive the form that issued them; only their
\* continuation (the setState calls) is lost with the form.
WritesAfter(old, new) ==
  IF FormKind(new) = FormKind(old) THEN writes
  ELSE [i \in DOMAIN writes |-> [writes[i] EXCEPT !.live = FALSE]]

\* React commits the render for the new App state.
Commit(newReady, newPage, newAdmin) ==
  LET old == CurrentView
      new == View(newReady, newPage, newAdmin)
  IN /\ dash' = DashAfter(old, new)
     /\ fetching' = FetchingAfter(old, new)
     /\ form' = FormAfter(old, new)
     /\ writes' = WritesAfter(old, new)

----------------------------------------------------------------------------
(* Local storage: App lines 992-998, 1003, 1009 *)

\* A start-up that does not read the key: every page load starts LoggedOut.
InitialAdminAuthForgetful(st, blocked) == FALSE

\* useState(() => { try { return getItem(key) === 'true' } catch { return false } })
InitialAdminAuth(st, blocked) == IF blocked THEN FALSE ELSE st = "true"

\* A login that leaves the key alone.
StorageUntouched(st, blocked) == st

\* try { localStorage.setItem('2x_admin_auth', 'true') } catch (e) {}
StorageAfterLogin(st, blocked) == IF blocked THEN st ELSE "true"

\* A logout that leaves the key alone.
StorageKept(st, blocked) == st

\* try { localStorage.removeItem('2x_admin_auth') } catch (e) {}
StorageAfterLogout(st, blocked) == IF blocked THEN st ELSE NULL

----------------------------------------------------------------------------
(* Identity provider *)

\* The provider's current user: none, an anonymous user, the user of the
\* bootstrap token, or the admin account.
Sessions == {"none", "anon", "token", "admin"}

\* user.uid of the provider's current user, null without one.
Uid(s) == IF s = "none" THEN NULL ELSE s

\* The one admin account of the identity provider.
AdminEmail == "admin@2x.co"
AdminPass == "s3cret"

\* error.message of a rejected signInWithEmailAndPassword.
InvalidCredential == "Firebase: Error (auth/invalid-credential)."
NetworkFailed == "Firebase: Error (auth/network-request-failed)."

----------------------------------------------------------------------------
(* Initial state: App mounted and the init effect of useFirebase run once *)

\* `st` is what localStorage holds under '2x_admin_auth' when the page
\* loads, `docs` the documents the collection holds then.
InitFrom(st, docs) ==
  /\ env \in Envs
  /\ storage = st
  /\ storageBlocked \in BOOLEAN
  /\ page = "home"
  /\ adminAuth = InitialAdminAuth(storage, storageBlocked)
  /\ adminModalOpen = FALSE
  /\ password = ""
  /\ email = ""
  /\ error = ""
  /\ db = FirebaseUp(env)
  /\ auth = FirebaseUp(env)
  /\ userId = NULL
  /\ currentUser = NULL
  /\ isReady = ~FirebaseUp(env)
  /\ session = "none"
  /\ authBoot = IF FirebaseUp(env) THEN "subscribed" ELSE "off"
  /\ unhandled = FALSE
  /\ signIns = <<>>
  /\ signOuts = 0
  /\ dash = DashUnmounted
  /\ fetching = FALSE
  /\ form = NoForm
  /\ writes = <<>>
  /\ store = docs
  /\ gateLog = "none"
  /\ submitLog = "none"

\* A first visit: nothing is stored.
Init == InitFrom(NULL, <<>>)

----------------------------------------------------------------------------
(* Router: App.navigate, line 989; Header and Footer buttons *)

Navigate(p) ==
  /\ page' = p
  /\ Commit(isReady, p, adminAuth)
  /\ UNCHANGED <<env, storage, storageBlocked, adminAuth, adminModalOpen,
                 password, email, error, db, auth, userId, currentUser,
                 isReady, session, authBoot, unhandled, signIns, signOuts,
                 store, gateLog, submitLog>>

----------------------------------------------------------------------------
(* AdminLogin modal: lines 98-170, opened from Header (905-909) and from   *)
(* the prompt of renderPage (1043)                                         *)

\* The lock button is rendered while !adminAuth, the prompt's button while
\* the prompt is the current view.
OpenAdmin ==
  /\ ~adminAuth
  /\ ~adminModalOpen
  /\ adminModalOpen' = TRUE
  /\ UNCHANGED <<env, storage, storageBlocked, page, adminAuth, password,
                 email, error, db, auth, userId, currentUser, isReady,
                 session, authBoot, unhandled, signIns, signOuts, dash,
                 fetching, form, writes, store, gateLog, submitLog>>

\* Modal's close button (onClose)
CloseAdmin ==
  /\ adminModalOpen
  /\ adminModalOpen' = FALSE
  /\ UNCHANGED <<env, storage, storageBlocked, page, adminAuth, password,
                 email, error, db, auth, userId, currentUser, isReady,
                 session, authBoot, unhandled, signIns, signOuts, dash,
                 fetching, form, writes, store, gateLog, submitLog>>

\* What a visitor may type into the password and the email input.
PasswordInputs ==
  IF useFirebaseAdmin
    THEN {"", AdminPass, "guess"}
    ELSE {"", Secret, "pizzawhite70", "PizzaWhite70 "}

EmailInputs == {"", AdminEmail}

\* onChange of the password input
SetPassword(s) ==
  /\ adminModalOpen
  /\ password # s
  /\ password' = s
  /\ UNCHANGED <<env, storage, storageBlocked, page, adminAuth,
                 adminModalOpen, email, error, db, auth, userId, currentUser,
                 isReady, session, authBoot, unhandled, signIns, signOuts,
                 dash, fetching, form, writes, store, gateLog, submitLog>>

\* onChange of the email input, rendered in the Firebase form only
SetEmail(s) ==
  /\ adminModalOpen
  /\ useFirebaseAdmin
  /\ email # s
  /\ email' = s
  /\ UNCHANGED <<env, storage, storageBlocked, page, adminAuth,
                 adminModalOpen, password, error, db, auth, userId,
                 currentUser, isReady, session, authBoot, unhandled, signIns,
                 signOuts, dash, fetching, form, writes, store, gateLog, submitLog>>

\* A comparison that ignores case and surrounding blanks.
Normalised(s) ==
  IF s \in {"PizzaWhite70", "pizzawhite70", "PizzaWhite70 "}
    THEN "pizzawhite70" ELSE s

PasswordMatchesLoosely(input, secret) == Normalised(input) = Normalised(secret)

\* `password === ADMIN_PASSWORD`, line 112
PasswordMatches(input, secret) == input = secret

\* App.handleAdminSuccess, lines 1001-1005, followed by the re-render
HandleAdminSuccess ==
  /\ adminAuth' = TRUE
  /\ storage' = StorageAfterLogin(storage, storageBlocked)
  /\ gateLog' = IF storageBlocked THEN "login-threw" ELSE "login"
  /\ page' = "submissions"
  /\ Commit(isReady, "submissions", TRUE)

\* A password form that locks once it has shown an error: every later
\* attempt is refused with 'Too many attempts'.
HandleSubmitPasswordLocking ==
  /\ adminModalOpen
  /\ ~useFirebaseAdmin
  /\ IF PasswordMatches(password, ADMIN_PASSWORD) /\ error = ""
       THEN /\ HandleAdminSuccess
            /\ password' = ""
            /\ error' = ""
            /\ adminModalOpen' = FALSE
       ELSE /\ error' = IF error = "" THEN "Invalid password"
                        ELSE "Too many attempts"
            /\ UNCHANGED <<storage, page, adminAuth, adminModalOpen, password,
                           dash, fetching, form, writes, gateLog>>
  /\ UNCHANGED <<env, storageBlocked, email, db, auth, userId, currentUser,
                 isReady, session, authBoot, unhandled, signIns, signOuts,
                 store, submitLog>>

\* AdminLogin.handleSubmitPassword, lines 107-120: the form of Mode A
HandleSubmitPassword ==
  /\ adminModalOpen
  /\ ~useFirebaseAdmin
  /\ IF PasswordMatches(password, ADMIN_PASSWORD)
       THEN /\ HandleAdminSuccess
            /\ password' = ""
            /\ error' = ""
            /\ adminModalOpen' = FALSE
       ELSE /\ error' = "Invalid password"
            /\ UNCHANGED <<storage, page, adminAuth, adminModalOpen, password,
                           dash, fetching, form, writes, gateLog>>
  /\ UNCHANGED <<env, storageBlocked, email, db, auth, userId, currentUser,
                 isReady, session, authBoot, unhandled, signIns, signOuts,
                 store, submitLog>>

\* An error display that replaces every message by the fixed text.
ShownErrorFixed(resError) == "Sign-in failed"

\* setError(res.error || 'Sign-in failed'), line 135
ShownError(resError) == OrElse(resError, "Sign-in failed")

\* AdminLogin.handleSubmitFirebase up to its await, lines 122-129, with
\* useFirebase.signInAdminWithEmail up to its await, lines 270-273. Without
\* auth the promise is already settled and the handler finishes in this task.
\* `stale` is history: it records that a logout has run since the request
\* was sent; the code keeps no such mark.
HandleSubmitFirebase ==
  /\ adminModalOpen
  /\ useFirebaseAdmin
  /\ IF Falsy(email) \/ Falsy(password)
       THEN /\ error' = "Please enter email and password"
            /\ UNCHANGED signIns
       ELSE IF ~auth
         THEN /\ error' = ShownError("Auth not initialized")
              /\ UNCHANGED signIns
         ELSE /\ Len(signIns) < MaxSignIns
              /\ error' = ""
              /\ signIns' = Append(signIns, [email |-> email,
                                             password |-> password,
                                             stale |-> FALSE])
  /\ UNCHANGED <<env, storage, storageBlocked, page, adminAuth,
                 adminModalOpen, password, email, db, auth, userId,
                 currentUser, isReady, session, authBoot, unhandled,
                 signOuts, dash, fetching, form, writes, store, gateLog, submitLog>>

\* The sequence without its i-th element.
RemoveAt(seq, i) == SubSeq(seq, 1, i - 1) \o SubSeq(seq, i + 1, Len(seq))

\* What the identity provider may answer to a password sign-in.
SignInOutcomes(req) ==
  {NetworkFailed} \cup
  (IF req.email = AdminEmail /\ req.password = AdminPass
     THEN {"ok"} ELSE {InvalidCredential})

\* The i-th sign-in request settles: signInAdminWithEmail lines 273-279, the
\* onAuthStateChanged callback (203-210) for the new user, and the rest of
\* handleSubmitFirebase, lines 130-136.
SignInSettles(i, outcome) ==
  /\ i \in DOMAIN signIns
  /\ authBoot # "subscribed"   \* the SDK answers once it has initialised
  /\ outcome \in SignInOutcomes(signIns[i])
  /\ signIns' = RemoveAt(signIns, i)
  /\ IF outcome = "ok"
       THEN /\ session' = "admin"
            /\ userId' = Uid("admin")
            /\ currentUser' = Uid("admin")
            /\ HandleAdminSuccess
            /\ email' = ""
            /\ password' = ""
            /\ adminModalOpen' = FALSE
            /\ UNCHANGED error
       ELSE /\ error' = ShownError(outcome)
            /\ UNCHANGED <<session, userId, currentUser, adminAuth, storage,
                           page, email, password, adminModalOpen, dash,
                           fetching, form, writes, gateLog>>
  /\ UNCHANGED <<env, storageBlocked, db, auth, isReady, authBoot, unhandled,
                 signOuts, store, submitLog>>

----------------------------------------------------------------------------
(* Logout: App.handleLogoutAdmin, lines 1007-1013, with                    *)
(* useFirebase.signOutAdmin, lines 282-290                                 *)

\* The Logout button (Header, lines 898-900 and 931-933) up to the await of
\* firebaseSignOut. Without auth signOutAdmin returns at once and
\* setPage('home') runs in the same task. The sign-in requests in flight
\* are not cancelled; the history mark `stale` is set on them.
HandleLogoutAdmin ==
  /\ adminAuth
  /\ adminAuth' = FALSE
  /\ storage' = StorageAfterLogout(storage, storageBlocked)
  /\ gateLog' = IF storageBlocked THEN "logout-threw" ELSE "logout"
  /\ IF auth
       THEN /\ signOuts < MaxSignOuts
            /\ signOuts' = signOuts + 1
            /\ UNCHANGED page
            /\ Commit(isReady, page, FALSE)
       ELSE /\ page' = "home"
            /\ Commit(isReady, "home", FALSE)
            /\ UNCHANGED signOuts
  /\ signIns' = [i \in DOMAIN signIns |-> [signIns[i] EXCEPT !.stale = TRUE]]
  /\ UNCHANGED <<env, storageBlocked, adminModalOpen, password, email, error,
                 db, auth, userId, currentUser, isReady, session, authBoot,
                 unhandled, store, submitLog>>

\* firebaseSignOut settles: on success the provider has no user any more and
\* the onAuthStateChanged callback runs with null (206-210), then
\* setCurrentUser(null) (286); a failure is caught and logged (287-289).
\* Either way handleLogoutAdmin goes on to setPage('home') (1012).
SignOutSettles(ok) ==
  /\ signOuts > 0
  /\ authBoot # "subscribed"
  /\ signOuts' = signOuts - 1
  /\ IF ok
       THEN /\ session' = "none"
            /\ userId' = NULL
            /\ currentUser' = NULL
       ELSE UNCHANGED <<session, userId, currentUser>>
  /\ page' = "home"
  /\ Commit(isReady, "home", adminAuth)
  /\ UNCHANGED <<env, storage, storageBlocked, adminAuth, adminModalOpen,
                 password, email, error, db, auth, isReady, authBoot,
                 unhandled, signIns>>
  /\ UNCHANGED <<store, gateLog, submitLog>>

----------------------------------------------------------------------------
(* Identity provider events: the init effect of useFirebase, lines 181-222 *)

\* onAuthStateChanged callback, lines 202-211
AuthStateChanged(s) ==
  /\ userId' = Uid(s)
  /\ currentUser' = Uid(s)
  /\ isReady' = TRUE
  /\ Commit(TRUE, page, adminAuth)

\* The first callback after the subscription: the user the SDK has kept
\* from the previous page load, or null.
AuthStateInitial ==
  /\ authBoot = "subscribed"
  /\ authBoot' = "signing"
  /\ AuthStateChanged(session)
  /\ UNCHANGED <<env, storage, storageBlocked, page, adminAuth,
                 adminModalOpen, password, email, error, db, auth, session,
                 unhandled, signIns, signOuts, store, gateLog, submitLog>>

\* The user signIn() of lines 193-200 signs in.
StartupUser(e) == IF e.initialAuthToken THEN "token" ELSE "anon"

\* signIn() of lines 193-200 settles. With a bootstrap token the await of
\* signInWithCustomToken is not guarded and signIn() is called without a
\* catch (213): its rejection is unhandled. The anonymous sign-in is
\* guarded (198). signInAnonymously keeps an anonymous current user and
\* replaces any other by a new anonymous user.
StartupSignInSettles(ok) ==
  /\ authBoot = "signing"
  /\ authBoot' = "settled"
  /\ IF ok
       THEN /\ session' = StartupUser(env)
            /\ AuthStateChanged(StartupUser(env))
            /\ UNCHANGED unhandled
       ELSE /\ unhandled' = (unhandled \/ env.initialAuthToken)
            /\ UNCHANGED <<session, userId, currentUser, isReady, dash,
                           fetching, form, writes>>
  /\ UNCHANGED <<env, storage, storageBlocked, page, adminAuth,
                 adminModalOpen, password, email, error, db, auth, signIns,
                 signOuts, store, gateLog, submitLog>>

\* The provider ends the session on its own (the account is disabled, the
\* refresh token is revoked, the user signs out in another tab): the
\* onAuthStateChanged callback runs with null.
SessionEnds ==
  /\ auth
  /\ authBoot # "subscribed"
  /\ session # "none"
  /\ session' = "none"
  /\ AuthStateChanged("none")
  /\ UNCHANGED <<env, storage, storageBlocked, page, adminAuth,
                 adminModalOpen, password, email, error, db, auth, authBoot,
                 unhandled, signIns, signOuts, store, gateLog, submitLog>>

----------------------------------------------------------------------------
(* Page reload: every React state starts again from its initial value;     *)
(* local storage, the provider's persisted user and the collection stay.   *)

Restart ==
  /\ storageBlocked' \in BOOLEAN
  /\ adminAuth' = InitialAdminAuth(storage, storageBlocked')
  /\ page' = "home"
  /\ adminModalOpen' = FALSE
  /\ password' = ""
  /\ email' = ""
  /\ error' = ""
  /\ db' = FirebaseUp(env)
  /\ auth' = FirebaseUp(env)
  /\ userId' = NULL
  /\ currentUser' = NULL
  /\ isReady' = ~FirebaseUp(env)
  /\ authBoot' = IF FirebaseUp(env) THEN "subscribed" ELSE "off"
  /\ unhandled' = FALSE
  /\ signIns' = <<>>
  /\ signOuts' = 0
  /\ dash' = DashUnmounted
  /\ fetching' = FALSE
  /\ form' = NoForm
  /\ writes' = [i \in DOMAIN writes |-> [writes[i] EXCEPT !.live = FALSE]]
  /\ submitLog' = "none"
  /\ UNCHANGED <<env, storage, session, store, gateLog>>


----------------------------------------------------------------------------
(* Forms: CustomForm, lines 383-507, and ContactForm, lines 696-772        *)

\* budgetOptions, line 388
BudgetOptions == {"<$50", "$50-$100", "$100-$200", "$200+"}

\* A file the visitor may pick: File.name, File.size (bytes), File.type.
Files == { [name |-> "ref.png", size |-> 1536, type |-> "image/png"] }

\* The fields each form renders an input for.
FieldsOf(kind) ==
  CASE kind = "custom" -> {"name", "email", "shoeModel", "designRequest", "budget"}
    [] kind = "contact" -> {"name", "email", "message"}
    [] OTHER -> {}

\* Inputs of a form whose budget is a free-text field.
InputsOfFreeText(field) ==
  CASE field = "budget" -> {"$200+", "$1000"}
    [] OTHER -> {"", "x"}

\* What a visitor may enter into a field. The budget select offers the
\* options of budgetOptions only (lines 477-480); its placeholder option is
\* disabled and cannot be chosen again. The visitor of the model picks
\* the top bucket.
InputsOf(field) ==
  CASE field = "name" -> {"", "Ann Lee"}
    [] field = "email" -> {"", "ann@x.io"}
    [] field = "shoeModel" -> {"", "Dunk Low"}
    [] field = "designRequest" -> {"", "red flames"}
    [] field = "message" -> {"", "hello"}
    [] field = "budget" -> BudgetOptions \cap {"$200+"}

\* handleChange, lines 390-393 and 701-704
HandleChange(field, value) ==
  /\ field \in FieldsOf(form.kind)
  /\ value \in InputsOf(field)
  /\ form[field] # value
  /\ form' = [form EXCEPT ![field] = value]
  /\ UNCHANGED <<env, storage, storageBlocked, page, adminAuth,
                 adminModalOpen, password, email, error, db, auth, userId,
                 currentUser, isReady, session, authBoot, unhandled, signIns,
                 signOuts, dash, fetching, writes, store, gateLog, submitLog>>

\* handleImageUpload, lines 395-402: only the descriptor of the file is kept
HandleImageUpload(file) ==
  /\ form.kind = "custom"
  /\ form.image # [name |-> file.name, size |-> file.size, type |-> file.type]
  /\ form' = [form EXCEPT !.image =
                [name |-> file.name, size |-> file.size, type |-> file.type]]
  /\ UNCHANGED <<env, storage, storageBlocked, page, adminAuth,
                 adminModalOpen, password, email, error, db, auth, userId,
                 currentUser, isReady, session, authBoot, unhandled, signIns,
                 signOuts, dash, fetching, writes, store, gateLog, submitLog>>

\* name.split(' ')[0]: the text before the first blank. Over the names
\* of the model: 'Ann Lee' gives 'Ann'; a name that starts with a blank
\* gives ''; a name without a blank, the empty name included, gives itself.
FirstWord(name) ==
  CASE name = "Ann Lee" -> "Ann"
    [] name = " Ann" -> ""
    [] OTHER -> name

\* The greeting the confirmation Modal of CustomForm renders from the
\* form's current state: form.name.split(' ')[0] || 'Sneakerhead', line 443
Greeting(f) == OrElse(FirstWord(f.name), "Sneakerhead")

\* Modal onClose of the confirmation dialog, lines 438 and 734
CloseConfirmation ==
  /\ form.modalOpen
  /\ form' = [form EXCEPT !.modalOpen = FALSE]
  /\ UNCHANGED <<env, storage, storageBlocked, page, adminAuth,
                 adminModalOpen, password, email, error, db, auth, userId,
                 currentUser, isReady, session, authBoot, unhandled, signIns,
                 signOuts, dash, fetching, writes, store, gateLog, submitLog>>

\* Forms whose message and name inputs are not marked `required`.
RequiredOfLax(kind) == FieldsOf(kind) \ {"message", "name"}

\* The browser's constraint validation, which runs before the submit event:
\* an input marked `required` must not be empty (lines 456, 460, 466, 471,
\* 477 and 751, 755, 759).
RequiredOf(kind) == FieldsOf(kind)

FormValid(f) == \A fld \in RequiredOf(f.kind) : f[fld] # ""

\* (size / 1024).toFixed(1): kilobytes with one decimal, rounded half up.
TenthsOfKB(size) == (size * 10 + 512) \div 1024

ToFixed1(size) ==
  ToString(TenthsOfKB(size) \div 10) \o "." \o ToString(TenthsOfKB(size) % 10)

\* An imageFile that holds the file's name only.
ImageFileNameOnly(image) ==
  IF image = NoImage THEN "No image uploaded" ELSE image.name

\* The imageFile template literal, line 417
ImageFile(image) ==
  IF image = NoImage THEN "No image uploaded"
  ELSE image.name \o " (" \o ToFixed1(image.size) \o " KB)"

\* A submissionData whose name and email are swapped.
CustomDataSwapped(f) ==
  [type |-> "custom_booking", status |-> "New", name |-> f.email,
   email |-> f.name, shoeModel |-> f.shoeModel,
   designRequest |-> f.designRequest, budget |-> f.budget,
   imageFile |-> ImageFile(f.image)]

\* submissionData of CustomForm.handleSubmit, lines 409-418
CustomData(f) ==
  [type |-> "custom_booking", status |-> "New", name |-> f.name,
   email |-> f.email, shoeModel |-> f.shoeModel,
   designRequest |-> f.designRequest, budget |-> f.budget,
   imageFile |-> ImageFile(f.image)]

\* submissionData of ContactForm.handleSubmit, lines 710-715
ContactData(f) ==
  [type |-> "contact_message", name |-> f.name, email |-> f.email,
   message |-> f.message]

SubmissionData(f) == IF f.kind = "custom" THEN CustomData(f) ELSE ContactData(f)

\* A submit that issues its write whether or not there is a database.
HandleSubmitWithoutCheck ==
  /\ form.kind \in {"custom", "contact"}
  /\ ~form.isSubmitting
  /\ IF ~FormValid(form)
       THEN /\ submitLog' = "invalid"
            /\ UNCHANGED <<form, writes>>
       ELSE /\ Len(writes) + Len(store) < MaxSubmits
            /\ submitLog' = "sent"
            /\ form' = [form EXCEPT !.isSubmitting = TRUE]
            /\ writes' = Append(writes, [data |-> SubmissionData(form),
                                         userId |-> userId, live |-> TRUE])
  /\ UNCHANGED <<env, storage, storageBlocked, page, adminAuth,
                 adminModalOpen, password, email, error, db, auth, userId,
                 currentUser, isReady, session, authBoot, unhandled, signIns,
                 signOuts, dash, fetching, store, gateLog>>

\* A submit whose button stays enabled while a write is pending.
HandleSubmitAlwaysEnabled ==
  /\ form.kind \in {"custom", "contact"}
  /\ IF ~FormValid(form)
       THEN /\ submitLog' = "invalid"
            /\ UNCHANGED <<form, writes>>
       ELSE IF db
         THEN /\ Len(writes) + Len(store) < MaxSubmits
              /\ submitLog' = "sent"
              /\ form' = [form EXCEPT !.isSubmitting = TRUE]
              /\ writes' = Append(writes, [data |-> SubmissionData(form),
                                           userId |-> userId, live |-> TRUE])
         ELSE /\ submitLog' = "failed"
              /\ UNCHANGED <<form, writes>>
  /\ UNCHANGED <<env, storage, storageBlocked, page, adminAuth,
                 adminModalOpen, password, email, error, db, auth, userId,
                 currentUser, isReady, session, authBoot, unhandled, signIns,
                 signOuts, dash, fetching, store, gateLog>>

\* A click on the submit button (or Enter in a field). The button is
\* disabled while isSubmitting (lines 500, 762). The browser shows its
\* validation message and fires no submit event unless the form is valid.
\* Otherwise handleSubmit runs up to its await (lines 404-420, 706-717)
\* with addSubmission up to its await (230-238); without db addSubmission
\* returns a failure at once and the handler finishes in this task: the
\* alert of lines 427-428, 723-724, the form untouched.
HandleSubmit ==
  /\ form.kind \in {"custom", "contact"}
  /\ ~form.isSubmitting
  /\ IF ~FormValid(form)
       THEN /\ submitLog' = "invalid"
            /\ UNCHANGED <<form, writes>>
       ELSE IF db
         THEN /\ Len(writes) + Len(store) < MaxSubmits
              /\ submitLog' = "sent"
              /\ form' = [form EXCEPT !.isSubmitting = TRUE]
              /\ writes' = Append(writes, [data |-> SubmissionData(form),
                                           userId |-> userId, live |-> TRUE])
         ELSE /\ submitLog' = "failed"
              /\ UNCHANGED <<form, writes>>
  /\ UNCHANGED <<env, storage, storageBlocked, page, adminAuth,
                 adminModalOpen, password, email, error, db, auth, userId,
                 currentUser, isReady, session, authBoot, unhandled, signIns,
                 signOuts, dash, fetching, store, gateLog>>

\* A spread in which the fields of `data` replace those of `extra`.
SpreadDataWins(data, extra) ==
  [k \in DOMAIN data \cup DOMAIN extra |->
     IF k \in DOMAIN data THEN data[k] ELSE extra[k]]

\* { ...data, userId: userId, timestamp: serverTimestamp() }, lines 238-242:
\* the fields of `extra` replace fields of `data` with the same name.
Spread(data, extra) ==
  [k \in DOMAIN data \cup DOMAIN extra |->
     IF k \in DOMAIN extra THEN extra[k] ELSE data[k]]

\* A store that gives every document the same id.
StoredDocSameId(w, n) ==
  [id |-> 1, fields |-> Spread(w.data, [userId |-> w.userId, timestamp |-> n])]

\* The document the store keeps for the i-th write: the payload of addDoc
\* with the server's time for the serverTimestamp() sentinel, under a
\* fresh document id.
StoredDoc(w, n) ==
  [id |-> n, fields |-> Spread(w.data, [userId |-> w.userId, timestamp |-> n])]

\* A settling that sends a rejected write once more, detached from the
\* form.
WriteSettlesRetrying(i, ok) ==
  /\ i \in DOMAIN writes
  /\ writes' = IF ok THEN RemoveAt(writes, i)
               ELSE Append(RemoveAt(writes, i),
                           [writes[i] EXCEPT !.live = FALSE])
  /\ store' = IF ok THEN Append(store, StoredDoc(writes[i], Len(store) + 1))
                    ELSE store
  /\ form' = IF ~writes[i].live THEN form
             ELSE IF ok THEN [FormOf(form.kind) EXCEPT !.modalOpen = TRUE]
             ELSE [form EXCEPT !.isSubmitting = FALSE]
  /\ submitLog' = IF ~writes[i].live THEN submitLog
                  ELSE IF ok THEN "stored" ELSE "failed"
  /\ UNCHANGED <<env, storage, storageBlocked, page, adminAuth,
                 adminModalOpen, password, email, error, db, auth, userId,
                 currentUser, isReady, session, authBoot, unhandled, signIns,
                 signOuts, dash, fetching, gateLog>>

\* A settling after which a failed submit resets the form as a successful
\* one does.
WriteSettlesClearing(i, ok) ==
  /\ i \in DOMAIN writes
  /\ writes' = RemoveAt(writes, i)
  /\ store' = IF ok THEN Append(store, StoredDoc(writes[i], Len(store) + 1))
                    ELSE store
  /\ form' = IF ~writes[i].live THEN form
             ELSE [FormOf(form.kind) EXCEPT !.modalOpen = ok]
  /\ submitLog' = IF ~writes[i].live THEN submitLog
                  ELSE IF ok THEN "stored" ELSE "failed"
  /\ UNCHANGED <<env, storage, storageBlocked, page, adminAuth,
                 adminModalOpen, password, email, error, db, auth, userId,
                 currentUser, isReady, session, authBoot, unhandled, signIns,
                 signOuts, dash, fetching, gateLog>>

\* The i-th addDoc request settles (lines 243-247) and the handleSubmit
\* that issued it resumes (lines 420-431, 719-727) if its form is still
\* mounted.
WriteSettles(i, ok) ==
  /\ i \in DOMAIN writes
  /\ writes' = RemoveAt(writes, i)
  /\ IF ok
       THEN /\ store' = Append(store, StoredDoc(writes[i], Len(store) + 1))
            /\ form' = IF writes[i].live
                         THEN [FormOf(form.kind) EXCEPT !.modalOpen = TRUE]
                         ELSE form
            /\ submitLog' = IF writes[i].live THEN "stored" ELSE submitLog
       ELSE /\ UNCHANGED store
            /\ form' = IF writes[i].live
                         THEN [form EXCEPT !.isSubmitting = FALSE]
                         ELSE form
            /\ submitLog' = IF writes[i].live THEN "failed" ELSE submitLog
  /\ UNCHANGED <<env, storage, storageBlocked, page, adminAuth,
                 adminModalOpen, password, email, error, db, auth, userId,
                 currentUser, isReady, session, authBoot, unhandled, signIns,
                 signOuts, dash, fetching, gateLog>>

----------------------------------------------------------------------------
(* Dashboard read: useFirebase.fetchSubmissions, lines 250-268 *)

\* The place of the i-th document in the order of the query,
\* orderBy('timestamp', 'desc'): after every document with a later
\* timestamp and, among equal timestamps, after those stored later.
RankDesc(docs, i) ==
  1 + Cardinality({ j \in DOMAIN docs :
                      \/ docs[j].fields.timestamp > docs[i].fields.timestamp
                      \/ /\ docs[j].fields.timestamp = docs[i].fields.timestamp
                         /\ j > i })

OrderByTimestampDesc(docs) ==
  LET rank == [i \in DOMAIN docs |-> RankDesc(docs, i)]
  IN [k \in 1..Len(docs) |-> docs[CHOOSE i \in DOMAIN docs : rank[i] = k]]

\* limit(50), line 256
FetchLimit == 50

\* A query without a limit.
TakeAll(seq, n) == seq

Take(seq, n) == SubSeq(seq, 1, IF Len(seq) < n THEN Len(seq) ELSE n)

\* A timestamp field that holds null. Server times are 1, 2, ...; the
\* store orders null before every time.
NullTimestamp == 0

\* timestamp?.toDate().toLocaleString() || 'N/A'
LocaleString(t) == IF t = NullTimestamp THEN "N/A" ELSE ToString(t)

\* { id: doc.id, ...doc.data(), timestamp: ... }, lines 258-262
Listed(doc) ==
  Spread(Spread([id |-> doc.id], doc.fields),
         [timestamp |-> LocaleString(doc.fields.timestamp)])

FetchSubmissions(docs) ==
  LET q == Take(OrderByTimestampDesc(docs), FetchLimit)
  IN [i \in 1..Len(q) |-> Listed(q[i])]

\* A load that a rejected read leaves unfinished.
FetchSettlesOrThrows(ok) ==
  /\ fetching
  /\ fetching' = FALSE
  /\ dash' = IF ok THEN [dash EXCEPT !.isLoading = FALSE,
                                     !.submissions = FetchSubmissions(store)]
                   ELSE dash
  /\ UNCHANGED <<env, storage, storageBlocked, page, adminAuth,
                 adminModalOpen, password, email, error, db, auth, userId,
                 currentUser, isReady, session, authBoot, unhandled, signIns,
                 signOuts, form, writes, store, gateLog, submitLog>>

\* A dashboard that keeps polling: when a read settles the next one is
\* already under way.
FetchSettlesPolling(ok) ==
  /\ fetching
  /\ fetching' = TRUE
  /\ dash' = [dash EXCEPT !.isLoading = FALSE,
                          !.submissions = IF ok THEN FetchSubmissions(store)
                                          ELSE <<>>]
  /\ UNCHANGED <<env, storage, storageBlocked, page, adminAuth,
                 adminModalOpen, password, email, error, db, auth, userId,
                 currentUser, isReady, session, authBoot, unhandled, signIns,
                 signOuts, form, writes, store, gateLog, submitLog>>

\* getDocs settles and loadSubmissions resumes, lines 782-784; a rejected
\* read is caught in fetchSubmissions and becomes [] (264-267).
FetchSettles(ok) ==
  /\ fetching
  /\ fetching' = FALSE
  /\ dash' = [dash EXCEPT !.isLoading = FALSE,
                          !.submissions = IF ok THEN FetchSubmissions(store)
                                          ELSE <<>>]
  /\ UNCHANGED <<env, storage, storageBlocked, page, adminAuth,
                 adminModalOpen, password, email, error, db, auth, userId,
                 currentUser, isReady, session, authBoot, unhandled, signIns,
                 signOuts, form, writes, store, gateLog, submitLog>>

----------------------------------------------------------------------------
(* Specifications *)

\* Where the visitor navigates. cleaning, gallery, pricing and about
\* render a component without state, as home does; their buttons are not
\* pressed.
NavPages == Pages \ {"cleaning", "gallery", "pricing", "about"}

RouterNext == \E p \in NavPages : Navigate(p)

LoginNext ==
  \/ OpenAdmin
  \/ CloseAdmin
  \/ \E s \in PasswordInputs : SetPassword(s)
  \/ \E s \in EmailInputs : SetEmail(s)
  \/ HandleSubmitPassword
  \/ HandleSubmitFirebase
  \/ \E i \in 1..MaxSignIns : \E o \in {"ok", InvalidCredential, NetworkFailed} :
       SignInSettles(i, o)
  \/ HandleLogoutAdmin
  \/ \E ok \in BOOLEAN : SignOutSettles(ok)

\* The start-up of the identity provider's session.
StartupNext ==
  \/ AuthStateInitial
  \/ \E ok \in BOOLEAN : StartupSignInSettles(ok)

ProviderNext ==
  \/ AuthStateInitial
  \/ \E ok \in BOOLEAN : StartupSignInSettles(ok)
  \/ SessionEnds

FormNext ==
  \/ \E fld \in FieldsOf("custom") \cup FieldsOf("contact") :
       \E v \in InputsOf(fld) : HandleChange(fld, v)
  \/ \E file \in Files : HandleImageUpload(file)
  \/ CloseConfirmation
  \/ HandleSubmit
  \/ \E i \in 1..MaxSubmits : \E ok \in BOOLEAN : WriteSettles(i, ok)

Next ==
  \/ RouterNext
  \/ LoginNext
  \/ ProviderNext
  \/ \E ok \in BOOLEAN : FetchSettles(ok)
  \/ Restart

Spec == Init /\ [][Next]_vars

\* The submission pipeline on its own: the forms, the writes and the
\* start-up sign-in, with the README's example secret, without a backend
\* and with one whose start-up sign-in is anonymous.
InitForms ==
  /\ Init
  /\ env.adminPasswordGlobal = UNDEFINED
  /\ env.viteAdminPassword = Secret
  /\ ~env.viteUseFirebaseAdmin
  /\ ~env.initialAuthToken
  /\ ~env.initThrows
  /\ ~storageBlocked

NextForms ==
  \/ RouterNext
  \/ FormNext
  \/ StartupNext

SpecForms == InitForms /\ [][NextForms]_vars

\* The desk of a returning admin: the page loads with the flag stored by
\* an earlier Mode A login, the forms are submitted and the dashboard
\* reads the collection.
InitDesk ==
  /\ InitFrom("true", <<>>)
  /\ env.adminPasswordGlobal = UNDEFINED
  /\ env.viteAdminPassword = Secret
  /\ ~env.viteUseFirebaseAdmin
  /\ ~env.initialAuthToken
  /\ ~env.initThrows
  /\ ~storageBlocked

NextDesk ==
  \/ RouterNext
  \/ FormNext
  \/ StartupNext
  \/ \E ok \in BOOLEAN : FetchSettles(ok)

SpecDesk == InitDesk /\ [][NextDesk]_vars

\* Collections the dashboard may find: the timestamps of the documents, in
\* the order they were stored, follow one of a few patterns.
Patterns == {"ascending", "descending", "ties", "scattered", "nulls"}

TimestampAt(pattern, n, i) ==
  CASE pattern = "ascending" -> i
    [] pattern = "descending" -> n + 1 - i
    [] pattern = "ties" -> 1 + (i % 3)
    [] pattern = "scattered" -> 1 + ((i * 7) % 11)
    [] pattern = "nulls" -> IF i % 5 = 0 THEN NullTimestamp ELSE i

CollectionOf(pattern, n) ==
  [i \in 1..n |->
     [id |-> i,
      fields |-> [type |-> "contact_message", name |-> "Ann Lee",
                  email |-> "ann@x.io", message |-> "hello",
                  userId |-> NULL,
                  timestamp |-> TimestampAt(pattern, n, i)]]]

\* The read of the dashboard over collections of up to MaxDocs documents:
\* a returning admin opens the dashboard of a deployment with a backend.
InitList ==
  /\ \E pattern \in Patterns : \E n \in 0..MaxDocs :
       InitFrom("true", CollectionOf(pattern, n))
  /\ env = EnvOf(UNDEFINED, Secret, FALSE,
                 [firebaseConfig |-> TRUE, initialAuthToken |-> FALSE,
                  initThrows |-> FALSE])
  /\ ~storageBlocked

NextList ==
  \/ \E p \in {"home", "submissions"} : Navigate(p)
  \/ StartupNext
  \/ \E ok \in BOOLEAN : FetchSettles(ok)

SpecList == InitList /\ [][NextList]_vars

----------------------------------------------------------------------------
(* Properties of the admin gate, Mode A (shared secret) *)

\* C1: in Mode A, starting from LoggedOut, a submit of the password form
\* moves the gate to LoggedIn if and only if the typed password is exactly
\* the configured secret (no case folding, no trimming); any other input
\* leaves the gate LoggedOut, the stored flag untouched, and shows the
\* error "Invalid password".
C1_ExactSecretOnly ==
  [][ (HandleSubmitPassword /\ ~adminAuth) =>
        /\ adminAuth' <=> (password = ADMIN_PASSWORD)
        /\ (password # ADMIN_PASSWORD =>
              /\ error' = "Invalid password"
              /\ storage' = storage
              /\ page' = page) ]_vars

\* With the README's secret, the exact password has opened the dashboard.
C1_Witness ==
  /\ ~useFirebaseAdmin
  /\ ADMIN_PASSWORD = "PizzaWhite70"
  /\ gateLog = "login"
  /\ adminAuth
  /\ page = "submissions"
  /\ storage = "true"

\* Neither source yields a non-empty secret.
NoSecretConfigured ==
  /\ env.adminPasswordGlobal \in {UNDEFINED, NULL, ""}
  /\ env.viteAdminPassword \in {UNDEFINED, NULL, ""}

\* C2: in Mode A with no shared secret configured (neither the runtime
\* global nor the environment option yields a non-empty secret), no
\* attempt succeeds for any input, the empty string included: the gate
\* never reaches LoggedIn.
C2_NoSecretNeverLogsIn ==
  (~useFirebaseAdmin /\ NoSecretConfigured) => (~adminAuth /\ storage = NULL)

----------------------------------------------------------------------------
(* Properties of the render guard *)

\* C3 as claimed: the dashboard (and its read) exists only while the admin
\* flag is true, and on the admin-only page without the flag the login
\* prompt is what is rendered.
C3_PromptWheneverNotAdmin ==
  /\ (CurrentView = "SubmissionsDashboard" \/ dash.mounted \/ fetching)
       => adminAuth
  /\ (page = "submissions" /\ ~adminAuth) => CurrentView = "AdminPrompt"

\* C3, amended: the dashboard is rendered, mounted or reading only while
\* the admin flag is true; on the admin-only page without the flag the
\* login prompt is rendered once the services are ready and the loading
\* screen before that, never the list.
C3_ListOnlyForAdmin ==
  /\ (CurrentView = "SubmissionsDashboard" \/ dash.mounted \/ fetching)
       => (adminAuth /\ page = "submissions")
  /\ dash.mounted <=> (CurrentView = "SubmissionsDashboard")
  /\ (page = "submissions" /\ ~adminAuth) =>
       CurrentView = IF isReady THEN "AdminPrompt" ELSE "Loading"

\* A visitor who never logged in has navigated to the admin-only page.
C3_Witness ==
  /\ page = "submissions"
  /\ gateLog = "none"
  /\ ~adminAuth
  /\ isReady
  /\ CurrentView = "AdminPrompt"
  /\ ~dash.mounted
  /\ ~fetching

----------------------------------------------------------------------------
(* Properties of logout and of the persisted flag *)

\* C4 as claimed: every logout leaves the gate LoggedOut and the key
\* absent, and a page reload whose last gate operation was a logout starts
\* LoggedOut.
C4_LogoutAlwaysClears ==
  [][ /\ HandleLogoutAdmin => (~adminAuth' /\ storage' = NULL)
      /\ (Restart /\ gateLog \in {"logout", "logout-threw"}) => ~adminAuth'
    ]_vars

\* C4, amended: every logout leaves the gate LoggedOut; it removes the key
\* when local storage is accessible and leaves it as it was when
\* removeItem throws; a page reload whose last gate operation was a logout
\* that removed the key starts LoggedOut.
C4_LogoutClearsWhenStorageWorks ==
  [][ /\ HandleLogoutAdmin =>
           /\ ~adminAuth'
           /\ storage' = IF storageBlocked THEN storage ELSE NULL
      /\ (Restart /\ gateLog = "logout") => ~adminAuth'
    ]_vars

\* The page was reloaded after a logout: the start-up subscription is
\* pending again, the last gate operation is the logout.
C4_Witness ==
  /\ gateLog = "logout"
  /\ authBoot = "subscribed"
  /\ storage = NULL
  /\ ~adminAuth

\* C5 as claimed: in Mode A, a page reload whose last gate operation was a
\* successful login starts LoggedIn when local storage is readable at
\* start-up; a reload with no stored flag or with unreadable storage
\* starts LoggedOut.
C5_LoginAlwaysSurvivesReload ==
  [][ (Restart /\ ~useFirebaseAdmin) =>
        /\ (gateLog \in {"login", "login-threw"} /\ ~storageBlocked')
             => adminAuth'
        /\ (storage = NULL /\ gateLog \notin {"login", "login-threw"})
             => ~adminAuth'
    ]_vars

\* C5, amended: in Mode A, a page reload whose last gate operation was a
\* successful login that wrote the key starts LoggedIn whenever local
\* storage is readable at start-up; a reload with no stored flag or with
\* unreadable storage starts LoggedOut.
C5_LoginSurvivesReloadWhenStorageWorks ==
  [][ (Restart /\ ~useFirebaseAdmin) =>
        /\ (gateLog = "login" /\ ~storageBlocked') => adminAuth'
        /\ (storage = NULL \/ storageBlocked') => ~adminAuth'
    ]_vars

\* Mode A with a backend: the page was reloaded after a login and the gate
\* is LoggedIn before any start-up callback has run.
C5_Witness ==
  /\ ~useFirebaseAdmin
  /\ gateLog = "login"
  /\ adminAuth
  /\ page = "home"
  /\ storage = "true"
  /\ authBoot = "subscribed"
  /\ password = ""
  /\ ~adminModalOpen

----------------------------------------------------------------------------
(* Properties of the admin gate, Mode B (delegated identity) *)

\* C6: in Mode B the login is not persisted by this component: the
\* local-storage key is never written.
C6_ModeBNeverWritesKey == useFirebaseAdmin => storage = NULL

\* C7: in Mode B, whenever the observed identity session is absent (the
\* last onAuthStateChanged callback reported no user), the gate is
\* LoggedOut.
C7_NoSessionNoAdmin ==
  (useFirebaseAdmin /\ auth /\ isReady /\ userId = NULL /\ session = "none")
    => ~adminAuth

----------------------------------------------------------------------------
(* Properties of the submission pipeline *)

\* The data of a write carries a non-empty value in every required field.
RequiredFilled(d) ==
  IF d.type = "custom_booking"
    THEN /\ d.name # "" /\ d.email # "" /\ d.shoeModel # ""
         /\ d.designRequest # "" /\ d.budget # ""
    ELSE d.name # "" /\ d.email # "" /\ d.message # ""

\* Some required field of the mounted form is empty.
SomeRequiredEmpty(f) ==
  \/ /\ f.kind = "custom"
     /\ "" \in {f.name, f.email, f.shoeModel, f.designRequest, f.budget}
  \/ /\ f.kind = "contact"
     /\ "" \in {f.name, f.email, f.message}

\* C9: for both forms, a submit while a required field is empty is
\* rejected by validation: it issues no write and changes neither the form
\* nor the collection; no write in flight and no stored document has an
\* empty required field.
C9_EmptyFieldNeverWritten ==
  [][ /\ (HandleSubmit /\ SomeRequiredEmpty(form)) =>
           /\ submitLog' = "invalid"
           /\ writes' = writes
           /\ store' = store
           /\ form' = form
      /\ \A i \in DOMAIN writes' : RequiredFilled(writes'[i].data)
      /\ \A i \in DOMAIN store' : RequiredFilled(store'[i].fields)
    ]_vars

\* A contact form with name and email but no message was submitted and
\* rejected, with a backend that would have taken the write.
C9_Witness ==
  /\ submitLog = "invalid"
  /\ db
  /\ form.kind = "contact"
  /\ form.name # ""
  /\ form.email # ""
  /\ form.message = ""
  /\ writes = <<>>
  /\ store = <<>>

\* The data `d` is the record for the form `f` as submitted.
CarriesSubmitted(f, d) ==
  IF f.kind = "custom"
    THEN /\ d.type = "custom_booking"
         /\ d.status = "New"
         /\ d.name = f.name
         /\ d.email = f.email
         /\ d.shoeModel = f.shoeModel
         /\ d.designRequest = f.designRequest
         /\ d.budget = f.budget
    ELSE /\ d.type = "contact_message"
         /\ d.name = f.name
         /\ d.email = f.email
         /\ d.message = f.message

\* C10: a valid submit with a backend issues exactly one write, whose data
\* has the kind of the form (and status "New" for a custom booking) and
\* every field exactly as the form held it at the submit; a successful
\* write adds exactly one document, which keeps every field of that data
\* unchanged.
C10_RecordCarriesFields ==
  [][ /\ (HandleSubmit /\ ~SomeRequiredEmpty(form) /\ db) =>
           /\ Len(writes') = Len(writes) + 1
           /\ SubSeq(writes', 1, Len(writes)) = writes
           /\ CarriesSubmitted(form, writes'[Len(writes')].data)
      /\ Len(store') # Len(store) =>
           /\ Len(store') = Len(store) + 1
           /\ SubSeq(store', 1, Len(store)) = store
           /\ \E i \in DOMAIN writes :
                /\ writes' = RemoveAt(writes, i)
                /\ \A k \in DOMAIN writes[i].data :
                     /\ k \in DOMAIN store'[Len(store')].fields
                     /\ store'[Len(store')].fields[k] = writes[i].data[k]
    ]_vars

\* A custom booking from the filled-in form is in the collection.
C10_Witness ==
  /\ Len(store) = 1
  /\ store[1].fields.type = "custom_booking"
  /\ store[1].fields.status = "New"
  /\ store[1].fields.name = "Ann Lee"
  /\ store[1].fields.email = "ann@x.io"
  /\ store[1].fields.shoeModel = "Dunk Low"
  /\ store[1].fields.designRequest = "red flames"
  /\ store[1].fields.budget = "$200+"
  /\ submitLog = "stored"

\* The data of custom bookings: in flight and stored.
CustomBookingData ==
  { writes[i].data : i \in { j \in DOMAIN writes :
                               writes[j].data.type = "custom_booking" } }
  \cup { store[i].fields : i \in { j \in DOMAIN store :
                                     store[j].fields.type = "custom_booking" } }

\* C11: every custom booking written to the collection, and every one on
\* its way there, has a budget that is one of the four options of
\* budgetOptions; an empty budget or one outside the four never reaches a
\* write.
C11_BudgetIsABucket ==
  \A d \in CustomBookingData :
    d.budget \in {"<$50", "$50-$100", "$100-$200", "$200+"}

\* A booking is in the collection, stored after a contact message; its
\* budget is the bucket the visitor chose.
C11_Witness ==
  /\ Len(store) = 2
  /\ store[1].fields.type = "contact_message"
  /\ store[2].fields.type = "custom_booking"
  /\ store[2].fields.budget = "$200+"

\* A custom booking is submitted in this step and its write is issued.
CustomWriteIssued ==
  /\ HandleSubmit
  /\ form.kind = "custom"
  /\ Len(writes') = Len(writes) + 1

\* Descriptors of files a visitor could attach: the file of the model and
\* files that differ from it in the mime type or in a few bytes only.
Descriptors ==
  { [name |-> "ref.png", size |-> 1536, type |-> "image/png"],
    [name |-> "ref.png", size |-> 1536, type |-> "image/jpeg"],
    [name |-> "ref.png", size |-> 1540, type |-> "image/png"],
    [name |-> "sole.png", size |-> 1536, type |-> "image/png"] }

\* C12 as claimed: the record of a booking with an attachment carries the
\* attachment's descriptor, its name, its size in bytes and its mime type:
\* no other descriptor gives the same record. Without an attachment the
\* record describes no file.
C12_RecordCarriesDescriptor ==
  [][ CustomWriteIssued =>
        LET d == writes'[Len(writes')].data
        IN IF form.image = NoImage
             THEN \A c \in Descriptors : d.imageFile # ImageFile(c)
             ELSE \A c \in Descriptors :
                    d.imageFile = ImageFile(c) => c = form.image
    ]_vars

\* C12, amended: the record of a custom booking has the eight fields of
\* submissionData and nothing else, so no bytes of a file; for a booking
\* with an attachment its imageFile is the text made of the file's name
\* and its size in kilobytes with one decimal ("ref.png (1.5 KB)" for a
\* file of 1536 bytes), without the mime type and without the size in
\* bytes; without an attachment it is the text "No image uploaded".
C12_RecordCarriesLabel ==
  [][ CustomWriteIssued =>
        LET d == writes'[Len(writes')].data
        IN /\ DOMAIN d = {"type", "status", "name", "email", "shoeModel",
                          "designRequest", "budget", "imageFile"}
           /\ form.image = NoImage => d.imageFile = "No image uploaded"
           /\ form.image = [name |-> "ref.png", size |-> 1536,
                            type |-> "image/png"]
                => d.imageFile = "ref.png (1.5 KB)"
           /\ form.image \in {NoImage} \cup Files
    ]_vars

\* A booking with the attached file's label is in the collection.
C12_Witness ==
  \E i \in DOMAIN store :
    /\ store[i].fields.type = "custom_booking"
    /\ store[i].fields.imageFile = "ref.png (1.5 KB)"

\* A field map that names its own submitter and time.
ForgedData ==
  [type |-> "contact_message", name |-> "Ann Lee", email |-> "ann@x.io",
   message |-> "hello", userId |-> "someone-else", timestamp |-> 99]

\* C13: a write is stamped with the user id the application holds when
\* the write is issued, which is the uid of the provider's current user,
\* null without one; the stored document carries that id and the time the
\* server assigns, later than that of every document stored before; both
\* replace a userId or timestamp field of the submitted data.
C13_StampedWithSubmitterAndServerTime ==
  [][ /\ (HandleSubmit /\ Len(writes') = Len(writes) + 1) =>
           /\ writes'[Len(writes')].userId = userId
           /\ userId = Uid(session)
      /\ Len(store') = Len(store) + 1 =>
           LET doc == store'[Len(store')]
           IN /\ \E i \in DOMAIN writes :
                   /\ writes' = RemoveAt(writes, i)
                   /\ doc.fields.userId = writes[i].userId
              /\ \A j \in DOMAIN store :
                   doc.fields.timestamp > store[j].fields.timestamp
              /\ doc.fields.timestamp # NullTimestamp
      /\ LET forged == StoredDoc([data |-> ForgedData, userId |-> userId,
                                  live |-> TRUE], Len(store) + 1)
         IN /\ forged.fields.userId = userId
            /\ forged.fields.timestamp = Len(store) + 1
            /\ forged.fields.name = "Ann Lee"
    ]_vars

\* One document was written without a session and one by the anonymous
\* user of the start-up sign-in.
C13_Witness ==
  /\ \E i \in DOMAIN store : store[i].fields.userId = NULL
  /\ \E i \in DOMAIN store : store[i].fields.userId = Uid("anon")

\* The values of the inputs of the mounted form.
FieldValues(f) ==
  [name |-> f.name, email |-> f.email, shoeModel |-> f.shoeModel,
   designRequest |-> f.designRequest, budget |-> f.budget,
   image |-> f.image, message |-> f.message]

\* A write of the mounted form is rejected in this step.
LiveWriteRejected ==
  /\ store' = store
  /\ \E i \in DOMAIN writes : writes[i].live /\ writes' = RemoveAt(writes, i)

\* C14: when a submit fails, by a rejected write or because there is no
\* database, the values of the form's inputs stay as they are, no
\* confirmation dialog is opened and the submit button is enabled again;
\* a submit or a settling write empties the inputs only when a document
\* was stored.
C14_FailureKeepsForm ==
  [][ /\ LiveWriteRejected =>
           /\ FieldValues(form') = FieldValues(form)
           /\ form'.modalOpen = form.modalOpen
           /\ ~form'.isSubmitting
           /\ submitLog' = "failed"
      /\ (HandleSubmit /\ ~SomeRequiredEmpty(form) /\ ~db) =>
           /\ FieldValues(form') = FieldValues(form)
           /\ ~form'.modalOpen
           /\ ~form'.isSubmitting
           /\ writes' = writes
           /\ submitLog' = "failed"
      /\ ( /\ HandleSubmit \/ Len(writes') # Len(writes)
           /\ FieldValues(form') # FieldValues(form) ) =>
           /\ Len(store') = Len(store) + 1
           /\ FieldValues(form') = FieldValues(FormOf(form.kind))
           /\ form'.modalOpen
    ]_vars

\* With a database, the write of a complete custom booking was rejected:
\* the inputs still hold the booking and the button is enabled.
C14_Witness ==
  /\ submitLog = "failed"
  /\ db
  /\ store = <<>>
  /\ writes = <<>>
  /\ form.kind = "custom"
  /\ ~SomeRequiredEmpty(form)
  /\ form.image # NoImage
  /\ ~form.isSubmitting
  /\ ~form.modalOpen

\* C15: without a backend descriptor the application is ready and never
\* shows its loading screen; no submit is sent or stored, every submit of
\* a complete form fails at once; the dashboard's read asks the store for
\* nothing and gives an empty list, so the dashboard is never loading.
C15_NoBackendFailsSoftly ==
  ~env.firebaseConfig =>
    /\ isReady
    /\ CurrentView # "Loading"
    /\ ~db
    /\ writes = <<>>
    /\ store = <<>>
    /\ submitLog \in {"none", "invalid", "failed"}
    /\ (submitLog = "failed" /\ form.kind # "none") => ~form.isSubmitting
    /\ ~fetching
    /\ dash.mounted => (~dash.isLoading /\ dash.submissions = <<>>)

\* Without a backend a submit has failed and the admin now looks at the
\* empty dashboard.
C15_Witness ==
  /\ ~env.firebaseConfig
  /\ submitLog = "failed"
  /\ page = "submissions"
  /\ dash.mounted
  /\ ~dash.isLoading
  /\ dash.submissions = <<>>

\* C16: the dashboard is loading only while its read is pending; when the
\* read settles the dashboard stops loading, and a rejected read shows no
\* records.
C16_ReadFailureShowsNothing ==
  [][ /\ (dash'.mounted /\ dash'.isLoading) => fetching'
      /\ (fetching /\ ~fetching' /\ dash'.mounted) => ~dash'.isLoading
      /\ FetchSettles(FALSE) => (dash'.mounted /\ dash'.submissions = <<>>)
    ]_vars

\* A document was stored before the dashboard was opened, the read was
\* rejected and the dashboard shows an empty list.
C16_Witness ==
  /\ submitLog = "stored"
  /\ store # <<>>
  /\ dash.mounted
  /\ ~dash.isLoading
  /\ ~fetching
  /\ dash.submissions = <<>>

\* The stored timestamp of the document a listed record was made from.
StoredTime(rec) ==
  LET i == CHOOSE j \in DOMAIN store : store[j].id = rec.id
  IN store[i].fields.timestamp

\* C17: whatever the collection holds, the list the dashboard receives
\* has at most 50 records, each made from a different document; it holds
\* every document when there are at most 50; a record listed before
\* another was stored at the same or a later time, and no document left
\* out is later than a listed one.
C17_AtMostFiftyNewestFirst ==
  LET listed == dash.submissions
      ids == { listed[k].id : k \in DOMAIN listed }
  IN /\ Len(listed) <= 50
     /\ Cardinality(ids) = Len(listed)
     /\ ids \subseteq { store[j].id : j \in DOMAIN store }
     /\ (dash.mounted /\ ~dash.isLoading /\ listed # <<>>) =>
          Len(listed) = IF Len(store) < 50 THEN Len(store) ELSE 50
     /\ \A a, b \in DOMAIN listed :
          a < b => StoredTime(listed[a]) >= StoredTime(listed[b])
     /\ \A j \in DOMAIN store :
          store[j].id \notin ids =>
            \A k \in DOMAIN listed :
              store[j].fields.timestamp <= StoredTime(listed[k])

\* The collection holds more than 50 documents whose times are not in the
\* order of storing, and the dashboard lists 50 of them.
C17_Witness ==
  /\ Len(store) > 50
  /\ Len(dash.submissions) = 50
  /\ \E i, j \in DOMAIN store :
       i < j /\ store[i].fields.timestamp > store[j].fields.timestamp
  /\ \E i, j \in DOMAIN store :
       i < j /\ store[i].fields.timestamp < store[j].fields.timestamp

\* The fields of a document that the form supplied.
Submitted(doc) ==
  [k \in DOMAIN doc.fields \ {"userId", "timestamp"} |-> doc.fields[k]]

\* C18: the documents of the collection have distinct ids, none of them
\* the id of no document, also when their fields are the same; a read of
\* the dashboard that succeeds lists every document stored before it, a
\* later submission before an earlier one.
C18_DistinctIdsNewestFirst ==
  [][ /\ \A i, j \in DOMAIN store' :
           i # j => store'[i].id # store'[j].id
      /\ \A i \in DOMAIN store' : store'[i].id >= 1
      /\ FetchSettles(TRUE) =>
           /\ Len(dash'.submissions) = Len(store)
           /\ \A j \in DOMAIN store :
                dash'.submissions[Len(store) + 1 - j].id = store[j].id
    ]_vars

\* Two bookings with the same fields were stored one after the other and
\* the dashboard lists both, the second first.
C18_Witness ==
  /\ Len(store) = 2
  /\ store[1].fields.type = "custom_booking"
  /\ Submitted(store[1]) = Submitted(store[2])
  /\ store[1].fields.userId = store[2].fields.userId
  /\ store[1].id # store[2].id
  /\ Len(dash.submissions) = 2
  /\ dash.submissions[1].id = store[2].id
  /\ dash.submissions[2].id = store[1].id

\* C19: a write request is issued only by a submit, one per submit; a
\* request that settles is gone, whether it was stored or rejected, and
\* is not issued again; a document is added only by a request that
\* settles, one per request.
C19_OneWritePerSubmit ==
  [][ /\ Len(writes') > Len(writes) =>
           /\ HandleSubmit
           /\ Len(writes') = Len(writes) + 1
           /\ SubSeq(writes', 1, Len(writes)) = writes
           /\ store' = store
      /\ Len(writes') < Len(writes) => Len(writes') = Len(writes) - 1
      /\ (writes' # writes /\ Len(writes') = Len(writes)) =>
           /\ form'.kind # form.kind
           /\ store' = store
      /\ store' # store =>
           /\ Len(store') = Len(store) + 1
           /\ SubSeq(store', 1, Len(store)) = store
           /\ Len(writes') = Len(writes) - 1
    ]_vars

\* The write of a contact message was rejected: nothing is in flight and
\* nothing was stored.
C19_Witness ==
  /\ submitLog = "failed"
  /\ db
  /\ form.kind = "contact"
  /\ ~SomeRequiredEmpty(form)
  /\ ~form.isSubmitting
  /\ writes = <<>>
  /\ store = <<>>

----------------------------------------------------------------------------
(* Properties of error handling *)

\* C20: no failure of a call to the backend reaches the global handler:
\* no promise rejection is ever left unhandled.
C20_NothingUnhandled == ~unhandled

----------------------------------------------------------------------------
(* Properties of a failed attempt and of the dashboard's list *)

\* C21: a failed Mode A attempt changes nothing but the inline error: the
\* gate stays LoggedOut, the stored flag, the page, the typed password and
\* everything else stay as they were. There is no lockout: whatever was
\* attempted before, and also right after 'Invalid password' was shown, an
\* attempt with the exact secret logs in.
C21_FailedAttemptOnlySetsError ==
  [][ HandleSubmitPassword =>
        /\ password # ADMIN_PASSWORD =>
             /\ error' = "Invalid password"
             /\ ~adminAuth'
             /\ UNCHANGED <<env, storage, storageBlocked, page, adminAuth,
                            adminModalOpen, password, email, db, auth,
                            userId, currentUser, isReady, session, authBoot,
                            unhandled, signIns, signOuts, dash, fetching,
                            form, writes, store, gateLog, submitLog>>
        /\ password = ADMIN_PASSWORD =>
             /\ adminAuth'
             /\ page' = "submissions"
             /\ error' = ""
    ]_vars

\* An attempt has failed on the submissions page of a deployment with the
\* README's secret: the error is shown, the gate is LoggedOut, nothing is
\* stored, and the exact secret is typed for the next attempt.
C21_Witness ==
  /\ ~useFirebaseAdmin
  /\ ADMIN_PASSWORD = Secret
  /\ adminModalOpen
  /\ error = "Invalid password"
  /\ password = Secret
  /\ ~adminAuth
  /\ storage = NULL
  /\ page = "submissions"

\* C22: the dashboard's list is a snapshot. Once the mounted dashboard has
\* finished its load, no step changes what it shows and no new read is
\* started for as long as it stays mounted: a record stored afterwards
\* does not appear until the dashboard is mounted again (the page is
\* reloaded or the view is left and entered again).
C22_ListIsASnapshot ==
  [][ (dash.mounted /\ ~dash.isLoading /\ dash'.mounted) =>
        /\ dash' = dash
        /\ ~fetching'
    ]_vars

\* The dashboard has read one record and shows it; a second record was
\* stored after the read and is not in the list.
C22_Witness ==
  /\ dash.mounted
  /\ ~dash.isLoading
  /\ Len(dash.submissions) = 1
  /\ Len(store) = 2
  /\ dash.submissions[1].id = store[1].id

----------------------------------------------------------------------------
(* Properties of the two admin modes *)

\* The deployment sets the delegated-admin toggle and has a backend
\* descriptor.
ToggleAndDescriptor == env.viteUseFirebaseAdmin /\ env.firebaseConfig

\* C23: the mode is Mode B exactly when the delegated-admin toggle is set
\* and a backend descriptor is present, Mode A otherwise; no step changes
\* it; the credentials form is submitted and sign-in requests settle in
\* Mode B only, the password form is submitted in Mode A only, and apart
\* from a page reload only the attempt of the selected mode moves the gate
\* from LoggedOut to LoggedIn.
C23_OneModePerSession ==
  [][ /\ useFirebaseAdmin' = useFirebaseAdmin
      /\ useFirebaseAdmin <=> ToggleAndDescriptor
      /\ (HandleSubmitFirebase
            \/ \E i \in 1..MaxSignIns :
                 \E o \in {"ok", InvalidCredential, NetworkFailed} :
                   SignInSettles(i, o)) => ToggleAndDescriptor
      /\ HandleSubmitPassword => ~ToggleAndDescriptor
      /\ (~adminAuth /\ adminAuth') =>
            \/ Restart
            \/ /\ ToggleAndDescriptor
               /\ \E i \in 1..MaxSignIns : SignInSettles(i, "ok")
            \/ /\ ~ToggleAndDescriptor
               /\ HandleSubmitPassword
    ]_vars

\* The toggle is set but no backend descriptor is configured: the password
\* form of Mode A has logged the admin in.
C23_Witness ==
  /\ env.viteUseFirebaseAdmin
  /\ ~env.firebaseConfig
  /\ ~useFirebaseAdmin
  /\ adminAuth
  /\ gateLog = "login"
  /\ storage = "true"
  /\ page = "submissions"

\* C24: in Mode B a sign-in request that was in flight when logout ran
\* cannot move the gate back to LoggedIn or write the stored flag: when
\* such a request succeeds, the gate and the flag stay as they are.
C24_StaleSignInCannotLogIn ==
  [][ \A i \in DOMAIN signIns :
        (signIns[i].stale /\ SignInSettles(i, "ok")) =>
          /\ adminAuth' = adminAuth
          /\ storage' = storage
    ]_vars

\* C25: in Mode A the admin login and the admin logout leave the identity
\* session alone: neither a submit of the password form nor a logout, up to
\* and including the completion of its sign-out call, changes the
\* provider's user or the subject id that submissions are stamped with.
C25_ModeALeavesIdentityAlone ==
  [][ (/\ ~useFirebaseAdmin
       /\ \/ HandleSubmitPassword
          \/ HandleLogoutAdmin
          \/ \E ok \in BOOLEAN : SignOutSettles(ok)) =>
        /\ session' = session
        /\ userId' = userId
    ]_vars

----------------------------------------------------------------------------
(* Properties of the submit control *)

\* The writes in flight whose form is still mounted and waits for them.
LiveWrites == { i \in DOMAIN writes : writes[i].live }

\* C26: a mounted form has at most one write in flight. The submit control
\* is disabled exactly while the form waits for the result of its write
\* (from the submit until the result arrives, after success and after
\* failure alike), and the one pending write of a form is a write of that
\* form. Writes of forms that have been unmounted may still be in flight
\* beside it.
C26_OneWritePerMountedForm ==
  /\ Cardinality(LiveWrites) <= 1
  /\ form.isSubmitting <=> LiveWrites # {}
  /\ \A i \in LiveWrites :
       writes[i].data.type = IF form.kind = "custom" THEN "custom_booking"
                             ELSE "contact_message"
  /\ form.kind = "none" => LiveWrites = {}

\* Two writes are in flight: the contact form was submitted and left, and
\* the custom form, mounted now, waits for its own write with its submit
\* control disabled.
C26_Witness ==
  /\ Len(writes) = 2
  /\ ~writes[1].live
  /\ writes[1].data.type = "contact_message"
  /\ writes[2].live
  /\ form.kind = "custom"
  /\ form.isSubmitting

----------------------------------------------------------------------------
(* Properties of the stored flag *)

\* A step that ends in handleAdminSuccess: a successful attempt of either
\* mode.
LoginStep ==
  \/ HandleSubmitPassword /\ password = ADMIN_PASSWORD
  \/ \E i \in 1..MaxSignIns : SignInSettles(i, "ok")

\* C27: in a page load whose local storage works, the admin flag in
\* memory is true exactly when the stored key holds 'true', at start-up
\* and after every login and logout. When the storage call of a login, a
\* logout or a start-up throws, nothing is left unhandled and the
\* transition in memory takes place all the same: the login ends
\* LoggedIn on the dashboard, the logout ends LoggedOut, the start-up
\* ends LoggedOut, and the stored key stays as it was.
C27_FlagAgreesWithStorage ==
  /\ [](~storageBlocked => (adminAuth <=> storage = "true"))
  /\ [][ /\ (LoginStep /\ storageBlocked) =>
             /\ adminAuth'
             /\ page' = "submissions"
             /\ storage' = storage
             /\ unhandled' = unhandled
         /\ (HandleLogoutAdmin /\ storageBlocked) =>
             /\ ~adminAuth'
             /\ storage' = storage
             /\ unhandled' = unhandled
         /\ (Restart /\ storageBlocked') =>
             /\ ~adminAuth'
             /\ storage' = storage
             /\ ~unhandled'
       ]_vars

\* In a page load whose local storage throws, the password was accepted:
\* the dashboard is open although the key could not be written.
C27_Witness ==
  /\ storageBlocked
  /\ gateLog = "login-threw"
  /\ adminAuth
  /\ storage = NULL
  /\ CurrentView = "SubmissionsDashboard"
  /\ ~unhandled

----------------------------------------------------------------------------
(* Properties of the confirmation dialog *)

\* C28: when the write of the mounted custom form succeeds, the
\* confirmation dialog opens and greets with the first word of the name
\* that was submitted, 'Sneakerhead' standing in only for a submitted name
\* without a first word.
C28_GreetsBySubmittedName ==
  [][ \A i \in DOMAIN writes :
        (WriteSettles(i, TRUE) /\ writes[i].live /\ form.kind = "custom") =>
          /\ form'.modalOpen
          /\ Greeting(form') =
               OrElse(FirstWord(writes[i].data.name), "Sneakerhead")
    ]_vars

====
